---- MODULE Spec2Model ----
(***************************************************************************)
(* Model of the api.imvid video gateway (src/index.js): the /extract,      *)
(* /status, /stream and /download handlers, the metadata cache, the        *)
(* download queue, the background download and the live stream, as a       *)
(* state machine over the single-threaded event loop.  One action is one   *)
(* run of the event loop between two suspension points of a handler.       *)
(* Specification Spec is that server.                                      *)
(*                                                                         *)
(* The other revision of the server kept in the repository                 *)
(* (src/unnamed/part_001) has what src/index.js lacks: retryOperation, the *)
(* extraction timeout and a cache keyed by URL and videoId.  Its /extract  *)
(* is modelled by the variables cache, call and spawned and by             *)
(* specification SpecRetry.                                                *)
(*                                                                         *)
(* Strings are modelled as sequences of tokens: a URL is <<host, id>>, a   *)
(* videoId is <<id>>; String.includes(t) is "t occurs as a token".         *)
(***************************************************************************)
EXTENDS Integers, Sequences, FiniteSets, TLC

\* ---------------------------------------------------------------- bounds

\* Number of HTTP requests a behaviour may issue (request slots 1..MaxReq).
MaxReq == 3

\* Number of /extract calls a behaviour of SpecRetry may issue.
MaxExtracts == 2

\* Number of requests a behaviour of SpecClassify classifies.
MaxClassify == 2

\* Number of argument lists a behaviour of SpecArgs builds.
MaxBuilds == 2

Reqs == 1..MaxReq

\* ------------------------------------------------------ program constants

CACHE_TTL == 3600000

MAX_CACHE_SIZE_MB == 500

\* CONFIG of src/unnamed/part_001.
cacheTTL == 1800000

maxRetries == 2

retryDelay == 2000

\* Instants Date.now() takes in a behaviour: they realise the differences
\* 0, 1, CACHE_TTL - 1 and CACHE_TTL between a write and a read.
Clock == {0, 1, CACHE_TTL}

\* ------------------------------------------------------------ inputs

\* The URLs a client may submit: a video on a supported platform and a URL
\* of an unsupported domain.
Urls == { <<"youtube.com", "a">>, <<"example.com", "x">> }

\* The videoIds a client may put in /status, /stream and /download paths;
\* <<"zz">> is an id no extraction yields.
VideoIds == { <<"a">>, <<"zz">> }

\* Sizes on disk, in MB, a downloaded video may have: one that fits the
\* cache and one that exceeds MAX_CACHE_SIZE_MB on its own.
FileSizesMB == {300, 600}

\* Progress percentages yt-dlp prints while downloading.
ProgressValues == {50}

\* Messages a failing extraction rejects with (error.message): a login wall,
\* a private video, a network timeout reported by yt-dlp.
ErrorMessages ==
  { <<"ERROR:", "Sign in">>, <<"ERROR:", "Private video">>, <<"ERROR:", "timed out">> }

\* Exit codes of the live yt-dlp process.
ExitCodes == {0, 1}

\* ------------------------------------------------------------ Map helpers

MapSet(m, k, val) == [x \in (DOMAIN m) \cup {k} |-> IF x = k THEN val ELSE m[x]]

MapDelete(m, k) == [x \in (DOMAIN m) \ {k} |-> m[x]]

MapHas(m, k) == k \in DOMAIN m

EmptyMap == [x \in {} |-> {}]

\* ------------------------------------------------------------ state

VARIABLES
  now,            \* Date.now()
  req,            \* request slot -> the handler's local state
  proc,           \* subprocess id -> "none" | "running" | "killed" | "exited"
  metadataCache,  \* Map videoId -> [data, time]
  downloadQueue,  \* Map videoId -> [status, progress, filePath, error, process, streams]
  files,          \* video_cache directory: file name -> [size, mtime]
  writers,        \* download subprocesses writing to the file now at <videoId>.mp4
  cache,          \* part_001: Map (URL or videoId) -> [metadata, timestamp]
  call,           \* part_001: the /extract call in progress (or the last one)
  spawned,        \* part_001: Map <<call, attempt>> -> "running" | "exited"
  input,          \* the argument a function studied on its own is called with
  output,         \* what that call returned
  done,           \* whether the call has been made
  extraArgs,      \* platform -> PLATFORM_CONFIG[platform].extraArgs
  cookiesFile     \* whether youtube-cookies.txt exists on disk

serverVars == <<req, proc, metadataCache, downloadQueue, files, writers>>

retryVars == <<cache, call, spawned>>

\* The variables of the specifications that study one function on its own.
unitVars == <<input, output, done>>

\* The platform configuration and the cookies file it depends on.
configVars == <<extraArgs, cookiesFile>>

vars == <<now, serverVars, retryVars, unitVars, configVars>>

\* A subprocess is named by the request that spawned it and its role.
ProcIds == Reqs \X {"extract", "download", "live", "info"}

NoProc == <<0, "null">>

NoVid == <<>>

\* File names of the cache directory: <videoId>.mp4 and <videoId>.temp.mp4.
outputPath(v) == <<v[1], "mp4">>

tempPath(v) == <<v[1], "temp.mp4">>

\* ------------------------------------------------------------ helpers

Includes(s, t) == \E i \in DOMAIN s : s[i] = t

\* detectPlatform taking every URL for a YouTube URL (mutant).
detectPlatformAny(url) == "youtube"

\* detectPlatform testing the platforms in the reverse order (mutant).
detectPlatformReversed(url) ==
  IF Includes(url, "facebook.com") \/ Includes(url, "fb.watch") THEN "facebook"
  ELSE IF Includes(url, "tiktok.com") THEN "tiktok"
  ELSE IF Includes(url, "instagram.com") THEN "instagram"
  ELSE IF Includes(url, "youtube.com") \/ Includes(url, "youtu.be") THEN "youtube"
  ELSE "null"

detectPlatform(url) ==
  IF Includes(url, "youtube.com") \/ Includes(url, "youtu.be") THEN "youtube"
  ELSE IF Includes(url, "instagram.com") THEN "instagram"
  ELSE IF Includes(url, "tiktok.com") THEN "tiktok"
  ELSE IF Includes(url, "facebook.com") \/ Includes(url, "fb.watch") THEN "facebook"
  ELSE "null"

\* The id yt-dlp reports for a URL (metadata.id; every extraction modelled
\* here reports one, so the vid_<Date.now()> fallback is not taken).
MetadataId(url) == <<url[2]>>

\* The record /extract caches: the response fields and originalUrl.
CachedData(url) ==
  [ videoId |-> MetadataId(url), platform |-> detectPlatform(url),
    originalUrl |-> url ]

NoData == [ videoId |-> NoVid, platform |-> "null", originalUrl |-> <<>> ]

\* CacheValid with an entry still valid at age CACHE_TTL (mutant).
CacheValidInclusive(store, videoId, t) ==
  /\ MapHas(store, videoId)
  /\ t - store[videoId].time <= CACHE_TTL

\* getCachedMetadata: the entry is valid while Date.now() - time < CACHE_TTL.
CacheValid(store, videoId, t) ==
  /\ MapHas(store, videoId)
  /\ t - store[videoId].time < CACHE_TTL

\* getCachedMetadata's return value (NoData stands for null) ...
getCachedMetadata(store, videoId, t) ==
  IF CacheValid(store, videoId, t) THEN store[videoId].data ELSE NoData

\* CacheAfterGet with a hit renewing the entry's timestamp (mutant).
CacheAfterGetRefreshing(store, videoId, t) ==
  IF CacheValid(store, videoId, t)
  THEN [store EXCEPT ![videoId].time = t]
  ELSE MapDelete(store, videoId)

\* ... and its effect on the Map: a miss deletes the key.
CacheAfterGet(store, videoId, t) ==
  IF CacheValid(store, videoId, t) THEN store ELSE MapDelete(store, videoId)

setCachedMetadata(store, videoId, data, t) ==
  MapSet(store, videoId, [data |-> data, time |-> t])

\* ------------------------------------------------------------ Init

IdleReq ==
  [ kind |-> "none", url |-> <<>>, vid |-> NoVid, pc |-> "idle", code |-> 0,
    metadata |-> NoData, error |-> "null", details |-> <<>>, body |-> "none" ]

\* part_001: no /extract call has been made.
IdleCall ==
  [ n |-> 0, url |-> <<>>, pc |-> "idle", attempt |-> 0, errs |-> <<>>,
    slept |-> <<>>, code |-> 0, details |-> <<>> ]

\* PLATFORM_CONFIG[platform].extraArgs as written in the source.
PLATFORM_CONFIG_extraArgs ==
  [ youtube |-> << "--no-check-certificate", "--extractor-retries", "5",
                   "--fragment-retries", "5", "--retry-sleep", "3" >>,
    instagram |-> <<>>, tiktok |-> <<>>, facebook |-> <<>> ]

\* The server after start-up: nothing cached, queued, stored or spawned.
ServerIdle ==
  /\ now = 0
  /\ req = [r \in Reqs |-> IdleReq]
  /\ proc = [p \in ProcIds |-> "none"]
  /\ metadataCache = EmptyMap
  /\ downloadQueue = EmptyMap
  /\ files = EmptyMap
  /\ writers = {}
  /\ cache = EmptyMap
  /\ call = IdleCall
  /\ spawned = EmptyMap
  /\ extraArgs = PLATFORM_CONFIG_extraArgs

Init ==
  /\ ServerIdle
  /\ cookiesFile = FALSE
  /\ input = <<>>
  /\ output = <<>>
  /\ done = FALSE

\* Requests arrive in slot order (slots are only names for requests).
CanStart(r) ==
  /\ req[r].pc = "idle"
  /\ IF r = 1 THEN TRUE ELSE req[r - 1].pc # "idle"

\* Date.now() advances.
Tick ==
  /\ \E t \in Clock : t > now /\ now' = t
  /\ UNCHANGED <<serverVars, retryVars, unitVars, configVars>>

\* ------------------------------------------------------------ cleanCache

RECURSIVE TotalSize(_)
TotalSize(fs) ==
  IF DOMAIN fs = {} THEN 0
  ELSE LET f == CHOOSE f \in DOMAIN fs : TRUE
       IN fs[f].size + TotalSize(MapDelete(fs, f))

\* Oldest picking the most recently modified file (mutant).
Newest(fs) == CHOOSE f \in DOMAIN fs : \A g \in DOMAIN fs : fs[f].mtime >= fs[g].mtime

\* The oldest file (fileStats sorted by mtime, ascending).
Oldest(fs) == CHOOSE f \in DOMAIN fs : \A g \in DOMAIN fs : fs[f].mtime <= fs[g].mtime

\* Evict stopping as soon as the remaining size is within the limit (mutant).
RECURSIVE EvictToCeiling(_, _)
EvictToCeiling(fs, remaining) ==
  IF DOMAIN fs = {} \/ remaining <= MAX_CACHE_SIZE_MB THEN fs
  ELSE EvictToCeiling(MapDelete(fs, Oldest(fs)), remaining - fs[Oldest(fs)].size)

\* The eviction loop: stop once the remaining size is within 80% of the limit.
RECURSIVE Evict(_, _)
Evict(fs, remaining) ==
  IF DOMAIN fs = {} \/ remaining * 10 <= MAX_CACHE_SIZE_MB * 8 THEN fs
  ELSE Evict(MapDelete(fs, Oldest(fs)), remaining - fs[Oldest(fs)].size)

cleanCache(fs) ==
  IF TotalSize(fs) > MAX_CACHE_SIZE_MB THEN Evict(fs, TotalSize(fs)) ELSE fs

\* ------------------------------------------------------------ GET /extract

UnsupportedPlatformError ==
  "Unsupported platform. Supported: YouTube, Instagram, TikTok, Facebook"

\* req.query.url of a request without the parameter, or with an empty one:
\* neither a host nor an id.
NoUrl == <<"", "">>

\* `!videoUrl`.
Missing(videoUrl) == videoUrl = NoUrl

MissingUrlError == "URL query parameter is required"

\* ExtractBegin answering 400 for a missing URL without returning, so that
\* the extractor is spawned all the same (mutant).
ExtractBeginNoReturn(r, u) ==
  /\ CanStart(r)
  /\ IF Missing(u)
     THEN /\ req' = [req EXCEPT ![r] = [IdleReq EXCEPT !.kind = "extract",
                       !.url = u, !.pc = "done", !.code = 400,
                       !.error = MissingUrlError]]
          /\ proc' = [proc EXCEPT ![<<r, "extract">>] = "running"]
     ELSE IF detectPlatform(u) = "null"
     THEN /\ req' = [req EXCEPT ![r] = [IdleReq EXCEPT !.kind = "extract",
                       !.url = u, !.pc = "done", !.code = 400,
                       !.error = UnsupportedPlatformError]]
          /\ UNCHANGED proc
     ELSE /\ req' = [req EXCEPT ![r] = [IdleReq EXCEPT !.kind = "extract",
                       !.url = u, !.pc = "extracting"]]
          /\ proc' = [proc EXCEPT ![<<r, "extract">>] = "running"]
  /\ UNCHANGED <<now, metadataCache, downloadQueue, files>>
  /\ UNCHANGED <<writers, retryVars, unitVars, configVars>>

\* The handler up to `await ytdlpWrap.execPromise(args)`: a request without
\* a URL is answered 400, an unsupported URL is answered 400, any other URL
\* spawns the extractor.
ExtractBegin(r, u) ==
  /\ CanStart(r)
  /\ IF Missing(u)
     THEN /\ req' = [req EXCEPT ![r] = [IdleReq EXCEPT !.kind = "extract",
                       !.url = u, !.pc = "done", !.code = 400,
                       !.error = MissingUrlError]]
          /\ UNCHANGED proc
     ELSE IF detectPlatform(u) = "null"
     THEN /\ req' = [req EXCEPT ![r] = [IdleReq EXCEPT !.kind = "extract",
                       !.url = u, !.pc = "done", !.code = 400,
                       !.error = UnsupportedPlatformError]]
          /\ UNCHANGED proc
     ELSE /\ req' = [req EXCEPT ![r] = [IdleReq EXCEPT !.kind = "extract",
                       !.url = u, !.pc = "extracting"]]
          /\ proc' = [proc EXCEPT ![<<r, "extract">>] = "running"]
  /\ UNCHANGED <<now, metadataCache, downloadQueue, files>>
  /\ UNCHANGED <<writers, retryVars, unitVars, configVars>>

\* execPromise resolves: the record is cached under the videoId, the
\* background download is called (it suspends at `await fs.access`) and the
\* response is sent.
ExtractResolve(r) ==
  /\ req[r].pc = "extracting"
  /\ proc' = [proc EXCEPT ![<<r, "extract">>] = "exited"]
  /\ metadataCache' = setCachedMetadata(metadataCache, MetadataId(req[r].url),
                                        CachedData(req[r].url), now)
  /\ req' = [req EXCEPT ![r].pc = "bg_access", ![r].code = 200,
                        ![r].vid = MetadataId(req[r].url)]
  /\ UNCHANGED <<now, downloadQueue, files>>
  /\ UNCHANGED <<writers, retryVars, unitVars, configVars>>

\* The catch block of /extract: the `error` text chosen from error.message.
ExtractErrorMsg(message) ==
  IF Includes(message, "Sign in") \/ Includes(message, "bot")
    THEN "Video may be age-restricted or require authentication. Add cookies file."
  ELSE IF Includes(message, "Private video")
    THEN "This video is private and cannot be accessed."
  ELSE IF Includes(message, "Video unavailable") \/ Includes(message, "not available")
    THEN "Video is unavailable or has been removed."
  ELSE IF Includes(message, "429") \/ Includes(message, "Too Many Requests")
    THEN "Rate limited. Please try again in a few moments."
  ELSE "Failed to fetch video information"

\* The catch block of /extract: the status it answers with.
ExtractErrorStatus(message) == 500

\* ExtractReject leaving a record of the failure in the cache (mutant).
ExtractRejectCaching(r, message) ==
  /\ req[r].pc = "extracting"
  /\ proc' = [proc EXCEPT ![<<r, "extract">>] = "exited"]
  /\ req' = [req EXCEPT ![r].pc = "done",
                        ![r].code = ExtractErrorStatus(message),
                        ![r].error = ExtractErrorMsg(message),
                        ![r].details = message]
  /\ metadataCache' = setCachedMetadata(metadataCache, MetadataId(req[r].url),
                                        NoData, now)
  /\ UNCHANGED <<now, downloadQueue, files, writers, retryVars, unitVars, configVars>>

\* execPromise rejects (yt-dlp exits nonzero) with the given message: the
\* catch block answers; nothing else is touched.
ExtractReject(r, message) ==
  /\ req[r].pc = "extracting"
  /\ proc' = [proc EXCEPT ![<<r, "extract">>] = "exited"]
  /\ req' = [req EXCEPT ![r].pc = "done",
                        ![r].code = ExtractErrorStatus(message),
                        ![r].error = ExtractErrorMsg(message),
                        ![r].details = message]
  /\ UNCHANGED <<now, metadataCache, downloadQueue, files>>
  /\ UNCHANGED <<writers, retryVars, unitVars, configVars>>

\* ------------------------------------------------- downloadVideoBackground

QueueEntry(status, progress, filePath, error, process) ==
  [ status |-> status, progress |-> progress, filePath |-> filePath,
    error |-> error, process |-> process, streams |-> <<>> ]

\* `await fs.access(outputPath)` settles.  File present: the entry is set to
\* completed.  File absent: the entry is set to downloading, yt-dlp is
\* spawned and its handle is stored in the entry.
BackgroundStart(r) ==
  /\ req[r].pc = "bg_access"
  /\ LET v == req[r].vid IN
     IF MapHas(files, outputPath(v))
     THEN /\ downloadQueue' = MapSet(downloadQueue, v,
                 QueueEntry("completed", 100, TRUE, "null", NoProc))
          /\ req' = [req EXCEPT ![r].pc = "done"]
          /\ UNCHANGED proc
     ELSE /\ downloadQueue' = MapSet(downloadQueue, v,
                 QueueEntry("downloading", 0, FALSE, "null", <<r, "download">>))
          /\ req' = [req EXCEPT ![r].pc = "bg_running"]
          /\ proc' = [proc EXCEPT ![<<r, "download">>] = "running"]
  /\ UNCHANGED <<now, metadataCache, files>>
  /\ UNCHANGED <<writers, retryVars, unitVars, configVars>>

\* stdout "data": a progress line updates whatever entry the videoId has now.
DownloadProgress(r, p) ==
  /\ req[r].pc = "bg_running"
  /\ proc[<<r, "download">>] = "running"
  /\ MapHas(downloadQueue, req[r].vid)
  /\ downloadQueue[req[r].vid].progress # p
  /\ downloadQueue' = [downloadQueue EXCEPT ![req[r].vid].progress = p]
  /\ UNCHANGED <<now, req, proc, metadataCache, files>>
  /\ UNCHANGED <<writers, retryVars, unitVars, configVars>>

\* yt-dlp exits with code 0 having written the temp file; the close handler
\* starts `await fs.rename(tempPath, outputPath)`.
DownloadExitOk(r, size) ==
  /\ req[r].pc = "bg_running"
  /\ proc[<<r, "download">>] = "running"
  /\ proc' = [proc EXCEPT ![<<r, "download">>] = "exited"]
  /\ files' = MapSet(files, tempPath(req[r].vid),
                     [size |-> size, mtime |-> now])
  /\ req' = [req EXCEPT ![r].pc = "bg_rename"]
  /\ UNCHANGED <<now, metadataCache, downloadQueue>>
  /\ writers' = writers \ {<<r, "download">>}
  /\ UNCHANGED <<retryVars, unitVars, configVars>>

Completed(entry) ==
  [entry EXCEPT !.status = "completed", !.progress = 100, !.filePath = TRUE,
                !.error = "null", !.streams = <<>>]

Failed(entry, error) ==
  [entry EXCEPT !.status = "failed", !.progress = 0, !.filePath = FALSE,
                !.error = error, !.streams = <<>>]

\* The download subprocesses of videoId v, other than that of request r,
\* that are running: each was given the same `-o tempPath`.
SameTempPath(r, v) ==
  {p \in ProcIds : /\ p[2] = "download" /\ p[1] # r
                   /\ req[p[1]].vid = v
                   /\ proc[p] \in {"running", "killed"}}

\* The writers whose file is in the directory fs.
StillThere(ws, fs) == {p \in ws : MapHas(fs, outputPath(req[p[1]].vid))}

\* fs.rename settles.  Success: the file at tempPath is now at outputPath,
\* the entry of the videoId becomes completed and cleanCache runs.  Which of
\* the other subprocesses given the same tempPath have that very file open
\* is a race between them: any subset `sharing` may.  Failure (the temp file
\* is gone, or the file system refuses: `renamed` is what it answers): the
\* catch block rejects the promise and the entry is left as it is.
DownloadRenamed(r, renamed) ==
  /\ req[r].pc = "bg_rename"
  /\ LET v == req[r].vid IN
     IF renamed /\ MapHas(files, tempPath(v))
     THEN /\ files' = cleanCache(MapSet(MapDelete(files, tempPath(v)),
                                        outputPath(v), files[tempPath(v)]))
          /\ downloadQueue' =
               IF MapHas(downloadQueue, v)
               THEN [downloadQueue EXCEPT ![v] = Completed(@)]
               ELSE downloadQueue
          /\ \E sharing \in SUBSET SameTempPath(r, v) :
               writers' = StillThere({p \in writers : req[p[1]].vid # v}
                                       \cup sharing, files')
     ELSE UNCHANGED <<files, downloadQueue, writers>>
  /\ req' = [req EXCEPT ![r].pc = "done"]
  /\ UNCHANGED <<now, proc, metadataCache>>
  /\ UNCHANGED <<retryVars, unitVars, configVars>>

\* yt-dlp closes with a nonzero code (it failed, or it was killed): the
\* entry of the videoId becomes failed and the temp file is unlinked.
DownloadCloseFail(r) ==
  /\ req[r].pc = "bg_running"
  /\ proc[<<r, "download">>] \in {"running", "killed"}
  /\ proc' = [proc EXCEPT ![<<r, "download">>] = "exited"]
  /\ LET v == req[r].vid IN
     /\ downloadQueue' =
          IF MapHas(downloadQueue, v)
          THEN [downloadQueue EXCEPT ![v] = Failed(@, "Download failed with code")]
          ELSE downloadQueue
     /\ files' = MapDelete(files, tempPath(v))
  /\ req' = [req EXCEPT ![r].pc = "done"]
  /\ UNCHANGED <<now, metadataCache>>
  /\ writers' = writers \ {<<r, "download">>}
  /\ UNCHANGED <<retryVars, unitVars, configVars>>

\* The child process emits "error" (it could not be spawned).
DownloadError(r) ==
  /\ req[r].pc = "bg_running"
  /\ proc[<<r, "download">>] = "running"
  /\ proc' = [proc EXCEPT ![<<r, "download">>] = "exited"]
  /\ LET v == req[r].vid IN
     downloadQueue' =
          IF MapHas(downloadQueue, v)
          THEN [downloadQueue EXCEPT ![v] = Failed(@, "spawn error")]
          ELSE downloadQueue
  /\ req' = [req EXCEPT ![r].pc = "done"]
  /\ UNCHANGED <<now, metadataCache, files>>
  /\ writers' = writers \ {<<r, "download">>}
  /\ UNCHANGED <<retryVars, unitVars, configVars>>

\* ------------------------------------------------------- GET /stream/:videoId

\* streamVideoLive: spawn yt-dlp writing to stdout and store its handle in
\* the queue entry the videoId has now; the handler then pipes it to the
\* response and registers the "close" listener.
StreamLive(r, v, queue) ==
  /\ proc' = [proc EXCEPT ![<<r, "live">>] = "running"]
  /\ downloadQueue' =
       IF MapHas(queue, v) THEN [queue EXCEPT ![v].process = <<r, "live">>]
       ELSE queue

\* The handler up to its first suspension point.
StreamBegin(r, v) ==
  /\ CanStart(r)
  /\ LET metadata == getCachedMetadata(metadataCache, v, now)
         new == [IdleReq EXCEPT !.kind = "stream", !.vid = v,
                                !.metadata = metadata] IN
     /\ metadataCache' = CacheAfterGet(metadataCache, v, now)
     /\ IF ~MapHas(downloadQueue, v) \/ metadata = NoData
        THEN /\ req' = [req EXCEPT ![r] = [new EXCEPT !.pc = "done", !.code = 404,
                                                      !.error = "Video not found"]]
             /\ UNCHANGED <<proc, downloadQueue>>
        ELSE IF downloadQueue[v].status = "failed"
        THEN /\ req' = [req EXCEPT ![r] = [new EXCEPT !.pc = "done", !.code = 500,
                                                      !.error = "Download failed"]]
             /\ UNCHANGED <<proc, downloadQueue>>
        ELSE IF downloadQueue[v].status = "completed" /\ downloadQueue[v].filePath
        THEN /\ req' = [req EXCEPT ![r] = [new EXCEPT !.pc = "stream_access"]]
             /\ UNCHANGED <<proc, downloadQueue>>
        ELSE /\ req' = [req EXCEPT ![r] = [new EXCEPT !.pc = "streaming", !.code = 200]]
             /\ StreamLive(r, v, downloadQueue)
  /\ UNCHANGED <<now, files>>
  /\ UNCHANGED <<writers, retryVars, unitVars, configVars>>

\* `await fs.access(status.filePath)` settles: the cached file is served, or
\* (file gone) the handler falls through to live streaming.
StreamAccess(r) ==
  /\ req[r].pc = "stream_access"
  /\ IF MapHas(files, outputPath(req[r].vid))
     THEN /\ req' = [req EXCEPT ![r].pc = "done", ![r].code = 200,
                                ![r].body = "complete"]
          /\ UNCHANGED <<proc, downloadQueue>>
     ELSE /\ req' = [req EXCEPT ![r].pc = "streaming", ![r].code = 200]
          /\ StreamLive(r, req[r].vid, downloadQueue)
  /\ UNCHANGED <<now, metadataCache, files>>
  /\ UNCHANGED <<writers, retryVars, unitVars, configVars>>

\* process.kill() on a handle: a running process is terminated.
Kill(procs, p) == [procs EXCEPT ![p] = IF @ = "running" THEN "killed" ELSE @]

\* The client aborts a live stream: req "close" destroys the stream and
\* kills the process stored in the queue entry if the entry has no streams.
\* Destroying stdout does not by itself end the child: it runs on until
\* StreamEnd.  (Only aborts are modelled, not "close" after a full response.)
StreamDisconnect(r) ==
  /\ req[r].pc = "streaming"
  /\ req' = [req EXCEPT ![r].pc = "aborted"]
  /\ LET v == req[r].vid IN
     proc' = IF /\ MapHas(downloadQueue, v)
                /\ downloadQueue[v].process # NoProc
                /\ Len(downloadQueue[v].streams) = 0
             THEN Kill(proc, downloadQueue[v].process)
             ELSE proc
  /\ UNCHANGED <<now, metadataCache, downloadQueue, files>>
  /\ UNCHANGED <<writers, retryVars, unitVars, configVars>>

\* The body a live response has carried when yt-dlp's stdout ends: the whole
\* video only if the process exited with code 0.
LiveBody(exitCode) == IF exitCode = 0 THEN "complete" ELSE "truncated"

\* The live yt-dlp process of a stream ends (by itself with an exit code, or
\* having been killed); its stdout ends and, if the client is still there,
\* the pipe ends the response, whose status line (200) was sent when the
\* pipe started.  The handler listens to no exit code.
StreamEnd(r, exitCode) ==
  /\ req[r].pc \in {"streaming", "aborted"}
  /\ proc[<<r, "live">>] \in {"running", "killed"}
  /\ proc[<<r, "live">>] = "killed" => exitCode # 0
  /\ proc' = [proc EXCEPT ![<<r, "live">>] = "exited"]
  /\ req' = IF req[r].pc = "streaming"
            THEN [req EXCEPT ![r].pc = "done", ![r].body = LiveBody(exitCode)]
            ELSE req
  /\ UNCHANGED <<now, metadataCache, downloadQueue, files>>
  /\ UNCHANGED <<writers, retryVars, unitVars, configVars>>

\* ----------------------------------------------------- GET /download/:videoId

DownloadGet(r, v) ==
  /\ CanStart(r)
  /\ LET new == [IdleReq EXCEPT !.kind = "download", !.vid = v, !.pc = "done"] IN
     req' = [req EXCEPT ![r] =
       IF ~MapHas(downloadQueue, v)
       THEN [new EXCEPT !.code = 404, !.error = "Video not found"]
       ELSE IF downloadQueue[v].status = "failed"
       THEN [new EXCEPT !.code = 500, !.error = "Download failed"]
       ELSE IF downloadQueue[v].status = "downloading" THEN [new EXCEPT !.code = 202]
       ELSE IF downloadQueue[v].status = "completed" /\ downloadQueue[v].filePath
       THEN [new EXCEPT !.pc = "download_access"]
       ELSE [new EXCEPT !.code = 500, !.error = "Unknown error"]]
  /\ UNCHANGED <<now, proc, metadataCache, downloadQueue, files>>
  /\ UNCHANGED <<writers, retryVars, unitVars, configVars>>

\* `await fs.access(status.filePath)` settles: the file is served (the
\* title is read through getCachedMetadata), or the answer is 500.
DownloadServe(r) ==
  /\ req[r].pc = "download_access"
  /\ IF MapHas(files, outputPath(req[r].vid))
     THEN /\ req' = [req EXCEPT ![r].pc = "done", ![r].code = 200,
                 ![r].body = "complete",
                 ![r].metadata = getCachedMetadata(metadataCache, req[r].vid, now)]
          /\ metadataCache' = CacheAfterGet(metadataCache, req[r].vid, now)
     ELSE /\ req' = [req EXCEPT ![r].pc = "done", ![r].code = 500,
                                ![r].error = "Video file not found"]
          /\ UNCHANGED metadataCache
  /\ UNCHANGED <<now, proc, downloadQueue, files>>
  /\ UNCHANGED <<writers, retryVars, unitVars, configVars>>

\* ------------------------------------------------------- GET /status/:videoId

\* StatusCode answering 200 without looking the videoId up (mutant).
StatusCodeUnchecked(queue, v) == 200

\* 404 when the queue has no entry for the videoId, 200 otherwise.
StatusCode(queue, v) == IF MapHas(queue, v) THEN 200 ELSE 404

StatusGet(r, v) ==
  /\ CanStart(r)
  /\ req' = [req EXCEPT ![r] = [IdleReq EXCEPT !.kind = "status", !.vid = v,
               !.pc = "done", !.code = StatusCode(downloadQueue, v),
               !.error = IF MapHas(downloadQueue, v) THEN "null" ELSE "Video not found"]]
  /\ UNCHANGED <<now, proc, metadataCache, downloadQueue, files>>
  /\ UNCHANGED <<writers, retryVars, unitVars, configVars>>

\* --------------------------------------------------------------- GET /info

\* The handler up to `await ytdlpWrap.execPromise(args)`: a request without
\* a URL is answered 400, any other spawns yt-dlp for the title, duration
\* and thumbnail.
InfoBegin(r, u) ==
  /\ CanStart(r)
  /\ IF Missing(u)
     THEN /\ req' = [req EXCEPT ![r] = [IdleReq EXCEPT !.kind = "info",
                       !.url = u, !.pc = "done", !.code = 400,
                       !.error = MissingUrlError]]
          /\ UNCHANGED proc
     ELSE /\ req' = [req EXCEPT ![r] = [IdleReq EXCEPT !.kind = "info",
                       !.url = u, !.pc = "info"]]
          /\ proc' = [proc EXCEPT ![<<r, "info">>] = "running"]
  /\ UNCHANGED <<now, metadataCache, downloadQueue, files>>
  /\ UNCHANGED <<writers, retryVars, unitVars, configVars>>

\* execPromise settles: the three lines are answered with 200, a rejection
\* with 500.
InfoEnd(r, exitCode) ==
  /\ req[r].pc = "info"
  /\ proc' = [proc EXCEPT ![<<r, "info">>] = "exited"]
  /\ req' = [req EXCEPT ![r].pc = "done",
                        ![r].code = IF exitCode = 0 THEN 200 ELSE 500,
                        ![r].error = IF exitCode = 0 THEN "null"
                                     ELSE "Failed to fetch video info"]
  /\ UNCHANGED <<now, metadataCache, downloadQueue, files>>
  /\ UNCHANGED <<writers, retryVars, unitVars, configVars>>

\* --------------------------------------- src/unnamed/part_001: GET /extract

\* detectPlatform: the first entry of PLATFORMS whose `detect` matches.
detectPlatformByTable(url) ==
  IF Includes(url, "youtube.com") \/ Includes(url, "youtu.be")
       \/ Includes(url, "music.youtube.com") THEN "youtube"
  ELSE IF Includes(url, "instagram.com") \/ Includes(url, "instagr.am") THEN "instagram"
  ELSE IF Includes(url, "tiktok.com") THEN "tiktok"
  ELSE IF Includes(url, "facebook.com") \/ Includes(url, "fb.watch") THEN "facebook"
  ELSE "null"

\* What execPromise may resolve with: a JSON document, or nothing.
Stdouts == {"json", ""}

\* Messages of the errors extractMetadata creates itself.
TimedOut == <<"Extraction", "timed out", "(30s)">>

Unsupported == <<"Unsupported", "platform">>

EmptyOutput == <<"Empty", "extractor", "output">>

\* The catch block of the /extract route: the status chosen from err.message.
RouteCode(message) ==
  IF Includes(message, "timed out") THEN 504
  ELSE IF Includes(message, "Unsupported") THEN 400
  ELSE 500

\* extractMetadata throws: the route answers with RouteCode and the message.
Thrown(c, message) ==
  [c EXCEPT !.pc = "done", !.code = RouteCode(message), !.details = message]

\* The cache check of extractMetadata (the entry is not deleted on expiry).
CacheHit(store, videoUrl, t) ==
  /\ MapHas(store, videoUrl)
  /\ t - store[videoUrl].timestamp < cacheTTL

\* The two cache.set calls that end extractMetadata.
CacheSetBoth(store, videoUrl, t) ==
  MapSet(MapSet(store, videoUrl,
                [metadata |-> CachedData(videoUrl), timestamp |-> t, originalUrl |-> <<>>]),
         MetadataId(videoUrl),
         [metadata |-> CachedData(videoUrl), timestamp |-> t, originalUrl |-> videoUrl])

\* execPromise spawns yt-dlp for attempt `attempt` of call n.
Spawn(procs, n, attempt) == MapSet(procs, <<n, attempt>>, "running")

\* retryOperation's catch sleeping after the last attempt too (mutant).
retryCatchAlwaysSleeps(c, message) ==
  [c EXCEPT !.errs = Append(@, message), !.pc = "sleeping",
            !.slept = Append(@, retryDelay * c.attempt)]

\* retryOperation's catch: lastErr = err; with attempts left it sleeps
\* retryDelay * attempt, after the last attempt the loop ends and lastErr is
\* thrown.
retryCatch(c, message) ==
  IF c.attempt < maxRetries
  THEN [c EXCEPT !.errs = Append(@, message), !.pc = "sleeping",
                 !.slept = Append(@, retryDelay * c.attempt)]
  ELSE Thrown([c EXCEPT !.errs = Append(@, message)], message)

\* The operation of the current attempt is pending and its process runs.
Racing ==
  /\ call.pc = "racing"
  /\ MapHas(spawned, <<call.n, call.attempt>>)
  /\ spawned[<<call.n, call.attempt>>] = "running"

\* extractMetadata up to the first `await operation()` of retryOperation.
ExtractMetadataBegin(u) ==
  /\ call.pc \in {"idle", "done"}
  /\ call.n < MaxExtracts
  /\ LET c == [IdleCall EXCEPT !.n = call.n + 1, !.url = u] IN
     IF detectPlatformByTable(u) = "null"
     THEN /\ call' = Thrown(c, Unsupported)
          /\ UNCHANGED spawned
     ELSE IF CacheHit(cache, u, now)
     THEN /\ call' = [c EXCEPT !.pc = "done", !.code = 200]
          /\ UNCHANGED spawned
     ELSE /\ call' = [c EXCEPT !.pc = "racing", !.attempt = 1]
          /\ spawned' = Spawn(spawned, c.n, 1)
  /\ UNCHANGED <<now, cache, serverVars, unitVars, configVars>>

\* execPromise wins the race with yt-dlp's output: retryOperation returns it;
\* empty output is thrown (outside the retry loop), anything else is cached
\* under both keys and answered 200.
OperationResolve(stdout) ==
  /\ Racing
  /\ spawned' = [spawned EXCEPT ![<<call.n, call.attempt>>] = "exited"]
  /\ IF stdout = ""
     THEN /\ call' = Thrown(call, EmptyOutput)
          /\ UNCHANGED cache
     ELSE /\ call' = [call EXCEPT !.pc = "done", !.code = 200]
          /\ cache' = CacheSetBoth(cache, call.url, now)
  /\ UNCHANGED <<now, serverVars, unitVars, configVars>>

\* execPromise loses nothing and rejects (yt-dlp exits nonzero).
OperationReject(message) ==
  /\ Racing
  /\ spawned' = [spawned EXCEPT ![<<call.n, call.attempt>>] = "exited"]
  /\ call' = retryCatch(call, message)
  /\ UNCHANGED <<now, cache, serverVars, unitVars, configVars>>

\* The setTimeout of the race fires first: the race rejects.  Nothing is done
\* to the yt-dlp process, which runs on.
OperationTimeout ==
  /\ Racing
  /\ call' = retryCatch(call, TimedOut)
  /\ UNCHANGED <<now, cache, spawned, serverVars, unitVars, configVars>>

\* The sleep of retryOperation ends: attempt++ and, while
\* attempt <= maxRetries, the operation is invoked again; else lastErr is
\* thrown.
RetryWake ==
  /\ call.pc = "sleeping"
  /\ IF call.attempt + 1 <= maxRetries
     THEN /\ call' = [call EXCEPT !.pc = "racing", !.attempt = @ + 1]
          /\ spawned' = Spawn(spawned, call.n, call.attempt + 1)
     ELSE /\ call' = Thrown(call, call.errs[Len(call.errs)])
          /\ UNCHANGED spawned
  /\ UNCHANGED <<now, cache, serverVars, unitVars, configVars>>

\* A yt-dlp process whose race is over (the timeout won) exits by itself.
ProcessExit(p) ==
  /\ spawned[p] = "running"
  /\ ~(call.pc = "racing" /\ p = <<call.n, call.attempt>>)
  /\ spawned' = [spawned EXCEPT ![p] = "exited"]
  /\ UNCHANGED <<now, cache, call, serverVars, unitVars, configVars>>

\* ------------------------------------------------------------ specification

Next ==
  \/ Tick
  \/ \E r \in Reqs, u \in Urls \cup {NoUrl} : ExtractBegin(r, u)
  \/ \E r \in Reqs : ExtractResolve(r)
  \/ \E r \in Reqs, message \in ErrorMessages : ExtractReject(r, message)
  \/ \E r \in Reqs : BackgroundStart(r)
  \/ \E r \in Reqs, p \in ProgressValues : DownloadProgress(r, p)
  \/ \E r \in Reqs, size \in FileSizesMB : DownloadExitOk(r, size)
  \/ \E r \in Reqs, renamed \in BOOLEAN : DownloadRenamed(r, renamed)
  \/ \E r \in Reqs : DownloadCloseFail(r)
  \/ \E r \in Reqs : DownloadError(r)
  \/ \E r \in Reqs, v \in VideoIds : StreamBegin(r, v)
  \/ \E r \in Reqs : StreamAccess(r)
  \/ \E r \in Reqs : StreamDisconnect(r)
  \/ \E r \in Reqs, exitCode \in ExitCodes : StreamEnd(r, exitCode)
  \/ \E r \in Reqs, v \in VideoIds : DownloadGet(r, v)
  \/ \E r \in Reqs : DownloadServe(r)
  \/ \E r \in Reqs, u \in Urls \cup {NoUrl} : InfoBegin(r, u)
  \/ \E r \in Reqs, exitCode \in ExitCodes : InfoEnd(r, exitCode)
  \/ \E r \in Reqs, v \in VideoIds : StatusGet(r, v)

Spec == Init /\ [][Next]_vars

\* The steps the server takes without a client: the clock, the exits of
\* its subprocesses and the settling of its awaits.
ServerStep ==
  \/ Tick
  \/ \E r \in Reqs : ExtractResolve(r)
  \/ \E r \in Reqs, message \in ErrorMessages : ExtractReject(r, message)
  \/ \E r \in Reqs : BackgroundStart(r)
  \/ \E r \in Reqs, size \in FileSizesMB : DownloadExitOk(r, size)
  \/ \E r \in Reqs, renamed \in BOOLEAN : DownloadRenamed(r, renamed)
  \/ \E r \in Reqs : DownloadCloseFail(r)
  \/ \E r \in Reqs : DownloadError(r)
  \/ \E r \in Reqs : StreamAccess(r)
  \/ \E r \in Reqs, exitCode \in ExitCodes : StreamEnd(r, exitCode)
  \/ \E r \in Reqs : DownloadServe(r)
  \/ \E r \in Reqs, exitCode \in ExitCodes : InfoEnd(r, exitCode)

\* The server with its own steps never postponed forever: time passes,
\* subprocesses exit, awaits settle.  Clients are free to stay away.
SpecLive == Init /\ [][Next]_vars /\ WF_vars(ServerStep)

\* The /extract route of src/unnamed/part_001.
RetryNext ==
  \/ Tick
  \/ \E u \in Urls : ExtractMetadataBegin(u)
  \/ \E stdout \in Stdouts : OperationResolve(stdout)
  \/ \E message \in ErrorMessages : OperationReject(message)
  \/ OperationTimeout
  \/ RetryWake
  \/ \E p \in DOMAIN spawned : ProcessExit(p)

SpecRetry == Init /\ [][RetryNext]_vars

\* ------------------------------------------------- cleanCache on its own

\* Names of the files a cache directory may hold.
FileNames == { <<"a", "mp4">>, <<"b", "mp4">>, <<"a", "temp.mp4">> }

\* What fs.stat may report of a file: a size in MB and a modification time.
FileStats == [size : {200, 300, 600}, mtime : Clock]

\* The directories cleanCache may find: any set of files with any stats.
Directories ==
  UNION { [names -> FileStats] : names \in SUBSET FileNames }

\* A directory, before cleanCache runs.
InitClean ==
  /\ ServerIdle
  /\ cookiesFile = FALSE
  /\ input \in Directories
  /\ output = EmptyMap
  /\ done = FALSE

\* One pass of cleanCache over the directory (every stat and unlink succeeds).
CleanCachePass ==
  /\ ~done
  /\ output' = cleanCache(input)
  /\ done' = TRUE
  /\ UNCHANGED <<now, serverVars, retryVars, input, configVars>>

CleanNext == CleanCachePass

SpecClean == InitClean /\ [][CleanNext]_vars

\* ------------------------------------------------------------ properties

Running == {p \in ProcIds : proc[p] = "running"}

Extracts == {r \in Reqs : req[r].kind = "extract"}

\* The /extract requests answered 200 for videoId v.
ExtractedBy(v) == {r \in Extracts : req[r].code = 200 /\ req[r].vid = v}

\* C1: concurrent /extract calls for one URL share a single extractor
\* subprocess: no two extractor subprocesses for the same URL run at once.
C1_ExtractCoalesced ==
  \A u \in Urls :
    Cardinality({r \in Extracts : req[r].url = u /\ proc[<<r, "extract">>] = "running"}) <= 1

\* C2: at most one background download subprocess runs per videoId.
C2_OneDownloadPerVideo ==
  \A v \in VideoIds :
    Cardinality({r \in Extracts : req[r].vid = v /\ proc[<<r, "download">>] = "running"}) <= 1

\* C3: an /extract of a URL whose record was cached less than CACHE_TTL ago
\* by an earlier /extract of that URL spawns no extractor subprocess.
C3_SecondExtractFromCache ==
  [][\A r \in Reqs :
       ( /\ req[r].pc = "idle"
         /\ req'[r].kind = "extract"
         /\ MapHas(metadataCache, MetadataId(req'[r].url))
         /\ metadataCache[MetadataId(req'[r].url)].data.originalUrl = req'[r].url
         /\ now - metadataCache[MetadataId(req'[r].url)].time < CACHE_TTL )
       => proc'[<<r, "extract">>] = "none"]_vars

\* A step in which request r reads the metadata cache (getCachedMetadata in
\* /stream, and in /download when the file is served).
ReadsCache(r) ==
  \/ req[r].pc = "idle" /\ req'[r].kind = "stream"
  \/ req[r].pc = "download_access" /\ req'[r].code = 200

\* C4: a read of an entry created at time t returns the cached value when
\* now - t < CACHE_TTL and is a miss (no value, key removed) otherwise.
C4_ReadHonoursTTL ==
  [][\A r \in Reqs :
       ReadsCache(r) =>
         LET v == req'[r].vid IN
         IF MapHas(metadataCache, v) /\ now - metadataCache[v].time < CACHE_TTL
         THEN req'[r].metadata = metadataCache[v].data /\ metadataCache' = metadataCache
         ELSE req'[r].metadata = NoData /\ ~MapHas(metadataCache', v)]_vars

\* C4 witness: one read hit an entry of age CACHE_TTL - 1 or less and went
\* live, another read found the extracted video's entry expired (404, key
\* removed).
C4_Witness ==
  /\ \E r \in Reqs : /\ req[r].kind = "stream"
                     /\ req[r].pc = "streaming"
                     /\ req[r].metadata # NoData
  /\ \E r \in Reqs : /\ req[r].kind = "stream"
                     /\ req[r].code = 404
                     /\ ExtractedBy(req[r].vid) # {}
                     /\ ~MapHas(metadataCache, req[r].vid)

\* C5: after a successful extraction of URL u yielding videoId v, a lookup by
\* u and a lookup by v return the same record (both valid or both absent).
C5_BothKeys ==
  \A r \in Extracts :
    req[r].code = 200 =>
      /\ MapHas(metadataCache, req[r].url) <=> MapHas(metadataCache, req[r].vid)
      /\ getCachedMetadata(metadataCache, req[r].url, now)
           = getCachedMetadata(metadataCache, req[r].vid, now)

\* C6: a /download for a videoId whose metadata entry has expired is not
\* served: every /download answered 200 found a live metadata entry.
C6_ExpiredNeverServed ==
  \A r \in Reqs :
    req[r].kind = "download" /\ req[r].code = 200 => req[r].metadata # NoData

\* C7: a /stream, /download or /status request for a videoId that no
\* extraction has yielded is answered 404 and spawns no subprocess.
C7_UnknownIs404 ==
  \A r \in Reqs :
    ( /\ req[r].kind \in {"stream", "download", "status"}
      /\ ExtractedBy(req[r].vid) = {} )
    => /\ req[r].pc = "done"
       /\ req[r].code = 404
       /\ \A k \in {"extract", "download", "live"} : proc[<<r, k>>] = "none"

\* C7 witness: such a request was answered while an extraction of another
\* request was still in flight.
C7_Witness ==
  \E r, e \in Reqs :
    /\ req[r].kind \in {"stream", "download", "status"}
    /\ ExtractedBy(req[r].vid) = {}
    /\ req[r].code = 404
    /\ req[e].pc = "extracting"

\* C8: the number of concurrently running yt-dlp subprocesses stays within a
\* capacity; stated for any capacity below the number of requests offered.
C8_BoundedSubprocesses == Cardinality(Running) <= MaxReq - 1

\* C9: once the disconnect of a streaming client has been handled, the
\* subprocess that produced that client's bytes is no longer running.
C9_DisconnectStopsOwnProcess ==
  \A r \in Reqs : req[r].pc = "aborted" => proc[<<r, "live">>] # "running"

\* C10: the disconnect of a streaming client never terminates a running
\* background download (whose result the /extract client was told to poll).
C10_DisconnectSparesDownload ==
  [][\A r, d \in Reqs :
       ( /\ req[r].pc = "streaming"
         /\ req'[r].pc = "aborted"
         /\ proc[<<d, "download">>] = "running" )
       => proc'[<<d, "download">>] = "running"]_vars

\* C14: a failed extraction writes nothing to the metadata cache and leaves
\* no entry of any kind for its key (cache and queue are as they were), and
\* the next /extract of that URL invokes the extractor again.
C14_FailureNotCached ==
  [][\A r \in Reqs :
       /\ (req[r].pc = "extracting" /\ req'[r].pc = "done")
            => /\ req'[r].code >= 400
               /\ metadataCache' = metadataCache
               /\ downloadQueue' = downloadQueue
       /\ ( /\ req[r].pc = "idle"
            /\ req'[r].kind = "extract"
            /\ \E f \in Extracts : /\ req[f].url = req'[r].url
                                   /\ req[f].pc = "done"
                                   /\ req[f].code = 500 )
            => /\ req'[r].pc = "extracting"
               /\ proc'[<<r, "extract">>] = "running"]_vars

\* C14 witness: an extraction of a URL has failed, the cache has no entry for
\* its videoId, and a later /extract of the same URL runs the extractor.
C14_Witness ==
  \E f, r \in Extracts :
    /\ req[f].pc = "done"
    /\ req[f].code = 500
    /\ req[r].url = req[f].url
    /\ f < r
    /\ req[r].pc = "extracting"
    /\ proc[<<r, "extract">>] = "running"
    /\ ~MapHas(metadataCache, MetadataId(req[f].url))
    /\ ~MapHas(downloadQueue, MetadataId(req[f].url))

C16_TimeoutIs504 ==
  \A r \in Extracts :
    (req[r].pc = "done" /\ Includes(req[r].details, "timed out"))
      => req[r].code = 504

\* C17: an /extract that fails because the platform demands a login or an
\* age check is answered 403.
C17_LoginRequiredIs403 ==
  \A r \in Extracts :
    (req[r].pc = "done" /\ Includes(req[r].details, "Sign in"))
      => req[r].code = 403

\* C18: a /stream response that has ended with a success status carries the
\* whole video: a failure of the streaming subprocess never leaves the
\* client with a 200 and an empty or truncated body.
C18_NoTruncatedSuccess ==
  \A r \in Reqs :
    (req[r].kind = "stream" /\ req[r].pc = "done" /\ req[r].code = 200)
      => req[r].body = "complete"

\* C19: once /extract has answered 200 with videoId v, a /status/v or
\* /stream/v request made while v's metadata is within its TTL is not
\* answered 404.
C19_KnownAfterExtract ==
  [][\A r \in Reqs :
       ( /\ req[r].pc = "idle"
         /\ req'[r].kind \in {"status", "stream"}
         /\ ExtractedBy(req'[r].vid) # {}
         /\ CacheValid(metadataCache, req'[r].vid, now) )
       => req'[r].code # 404]_vars

\* C20: whenever the queue entry of a videoId is "completed" (what /status
\* reports as ready: true), the video's file is on disk.
C20_ReadyImpliesFile ==
  \A v \in DOMAIN downloadQueue :
    downloadQueue[v].status = "completed" => MapHas(files, outputPath(v))

\* ------------------------------------ properties of src/unnamed/part_001

\* The yt-dlp processes spawned for the call in progress.
SpawnedBy(n) == {p \in DOMAIN spawned : p[1] = n}

\* C11: no extractor subprocess is still running after its attempt has been
\* reported as timed out (the timeout terminates the subprocess).
C11_TimedOutProcessStopped ==
  \A k \in 1..Len(call.errs) :
    call.errs[k] = TimedOut => spawned[<<call.n, k>>] # "running"

\* C12: an extraction that fails permanently ("Private video") is not
\* retried: the request makes exactly one extractor invocation.
C12_PermanentFailureNotRetried ==
  ( /\ call.errs # <<>>
    /\ Includes(call.errs[1], "Private video") )
  => Cardinality(SpawnedBy(call.n)) = 1

Min(a, b) == IF a <= b THEN a ELSE b

\* C13: retryOperation invokes the operation at most maxRetries times, one
\* invocation per attempt; after the k-th failed attempt it has waited
\* retryDelay * k, and nothing after the last attempt; a success returns at
\* once (no invocation beyond the successful attempt); when every attempt
\* failed, the error thrown is that of the last attempt.
C13_RetryOperation ==
  /\ call.attempt <= maxRetries
  /\ Cardinality(SpawnedBy(call.n)) = call.attempt
  /\ Len(call.errs) <= call.attempt
  /\ Len(call.slept) = Min(Len(call.errs), maxRetries - 1)
  /\ \A k \in 1..Len(call.slept) : call.slept[k] = retryDelay * k
  /\ call.pc = "sleeping" => Len(call.errs) = call.attempt
  /\ call.pc = "racing" => Len(call.errs) = call.attempt - 1
  /\ (call.pc = "done" /\ call.code = 200 /\ call.attempt > 0)
       => Len(call.errs) = call.attempt - 1
  /\ (call.pc = "done" /\ Len(call.errs) = call.attempt /\ call.attempt > 0)
       => /\ call.attempt = maxRetries
          /\ call.details = call.errs[maxRetries]

\* C13 witness: every attempt failed, with different errors; one wait of
\* retryDelay; the last error was thrown.
C13_Witness ==
  /\ call.pc = "done"
  /\ Len(call.errs) = maxRetries
  /\ call.errs[1] # call.errs[maxRetries]
  /\ call.slept = <<retryDelay>>
  /\ call.details = call.errs[maxRetries]

\* ------------------------------------ /extract: classifying req.query.url

\* Strings a client may send as `url`; two of them name two platforms.
StringUrls ==
  { <<"youtube.com", "a">>, <<"youtu.be", "a">>, <<"instagram.com", "a">>,
    <<"tiktok.com", "a">>, <<"facebook.com", "a">>, <<"fb.watch", "a">>,
    <<"example.com", "x">>, <<"facebook.com", "youtube.com">>,
    <<"tiktok.com", "instagram.com">> }

\* Values req.query.url takes once it has passed `if (!videoUrl)`: a string
\* (?url=s), an array of strings (?url=s&url=t) or an object (?url[k]=s).
QueryValues ==
  { [type |-> "string", str |-> u, items |-> <<>>] : u \in StringUrls }
    \cup { [type |-> "array", str |-> <<>>, items |-> <<<<"youtube.com">>>>],
           [type |-> "array", str |-> <<>>,
            items |-> << <<"youtube.com", "a">>, <<"example.com", "x">> >>],
           [type |-> "object", str |-> <<>>, items |-> <<>>] }

\* url.includes is a function on strings and arrays only: on an object the
\* call `url.includes(...)` throws a TypeError.
IncludesThrows(q) == q.type = "object"

\* What `includes` searches: the tokens of a string; for an array its
\* elements, of which only a one-token element can equal a searched token.
Searched(q) ==
  IF q.type = "string" THEN q.str
  ELSE [i \in 1..Len(q.items) |->
          IF Len(q.items[i]) = 1 THEN q.items[i][1] ELSE ""]

\* /extract from its try block to the answer or to execPromise.  A throw of
\* detectPlatform is caught by the handler's catch, whose response object
\* calls detectPlatform(videoUrl) again: the second throw leaves the async
\* handler; the request then stays unanswered, or is answered 500 by the
\* framework's error handler, depending on the express version installed.
Classified(q, handled) ==
  IF IncludesThrows(q)
  THEN [ threw |-> TRUE, platform |-> "null",
         fate |-> IF handled THEN "answered" ELSE "unanswered",
         code |-> IF handled THEN 500 ELSE 0 ]
  ELSE IF detectPlatform(Searched(q)) = "null"
  THEN [ threw |-> FALSE, platform |-> "null", fate |-> "answered", code |-> 400 ]
  ELSE [ threw |-> FALSE, platform |-> detectPlatform(Searched(q)),
         fate |-> "extracting", code |-> 0 ]

\* One more /extract request is classified.
Classify(q, handled) ==
  /\ Len(input) < MaxClassify
  /\ input' = Append(input, q)
  /\ output' = Append(output, Classified(q, handled))
  /\ UNCHANGED <<now, serverVars, retryVars, done, configVars>>

ClassifyNext == \E q \in QueryValues, handled \in BOOLEAN : Classify(q, handled)

SpecClassify == Init /\ [][ClassifyNext]_vars

\* ------------------------------ /extract: filesize, resolution, duration

\* The JavaScript values the fields of yt-dlp's document take here:
\* undefined (field not reported), null and numbers.
Undefined == [t |-> "undefined", n |-> 0]

Null == [t |-> "null", n |-> 0]

Num(n) == [t |-> "number", n |-> n]

Truthy(x) == x.t = "number" /\ x.n # 0

\* a || b
Or(a, b) == IF Truthy(a) THEN a ELSE b

\* a + b for two numbers.
Plus(a, b) == Num(a.n + b.n)

\* The entries yt-dlp may list in requested_formats.  A codec is a name,
\* or "none" when the format has no such track.
Formats ==
  [ vcodec : {"avc1", "none"}, acodec : {"mp4a", "none"},
    filesize : {Undefined, Num(100), Num(7)},
    filesize_approx : {Undefined, Num(30)},
    height : {Undefined, Num(720)} ]

\* The documents yt-dlp may print: one with the fields of a single format
\* and no requested_formats, or one with one or two requested_formats.
Metadatas ==
  { m \in [ duration : {Undefined, Num(60)},
            filesize : {Undefined, Num(100)},
            filesize_approx : {Undefined, Num(30)},
            height : {Undefined, Num(720)},
            requested_formats : {<<>>} \cup {<<f>> : f \in Formats}
                                  \cup {<<f, g>> : f, g \in Formats} ] :
      m.requested_formats = <<>>
        \/ (m.filesize = Undefined /\ m.filesize_approx = Undefined
              /\ m.height = Undefined) }

HasVideo(f) == f.vcodec # "" /\ f.vcodec # "none"

HasAudio(f) == f.acodec # "" /\ f.acodec # "none"

\* requested_formats.find(f => f.vcodec && f.vcodec !== "none"): the index of
\* the first such format, 0 for undefined.
FindVideo(formats) ==
  IF \E i \in DOMAIN formats : HasVideo(formats[i])
  THEN CHOOSE i \in DOMAIN formats :
         /\ HasVideo(formats[i])
         /\ \A j \in 1..(i - 1) : ~HasVideo(formats[j])
  ELSE 0

\* requested_formats.find(f => f.acodec && f.acodec !== "none").
FindAudio(formats) ==
  IF \E i \in DOMAIN formats : HasAudio(formats[i])
  THEN CHOOSE i \in DOMAIN formats :
         /\ HasAudio(formats[i])
         /\ \A j \in 1..(i - 1) : ~HasAudio(formats[j])
  ELSE 0

\* format?.filesize || format?.filesize_approx || 0, for the format at index
\* i (0: the format is undefined).
SizeOr0(formats, i) ==
  IF i = 0 THEN Num(0)
  ELSE Or(Or(formats[i].filesize, formats[i].filesize_approx), Num(0))

\* height ? `${height}p` : "unknown".
ResolutionOf(height) ==
  IF Truthy(height) THEN <<ToString(height.n), "p">> ELSE <<"unknown">>

\* FormatFilesize counting the video component only (mutant).
FormatFilesizeVideoOnly(m) ==
  IF Len(m.requested_formats) > 0
  THEN Or(SizeOr0(m.requested_formats, FindVideo(m.requested_formats)), Null)
  ELSE Or(Or(m.filesize, m.filesize_approx), Null)

\* `filesize` of the /extract response.
FormatFilesize(m) ==
  IF Len(m.requested_formats) > 0
  THEN Or(Plus(SizeOr0(m.requested_formats, FindVideo(m.requested_formats)),
               SizeOr0(m.requested_formats, FindAudio(m.requested_formats))),
          Null)
  ELSE Or(Or(m.filesize, m.filesize_approx), Null)

\* `resolution` of the /extract response.
FormatResolution(m) ==
  IF Len(m.requested_formats) > 0
  THEN IF FindVideo(m.requested_formats) = 0 THEN <<"unknown">>
       ELSE ResolutionOf(m.requested_formats[FindVideo(m.requested_formats)].height)
  ELSE ResolutionOf(m.height)

\* The fields of the /extract response computed from the document.
ExtractResponse(m) ==
  [ duration |-> Or(m.duration, Num(0)), filesize |-> FormatFilesize(m),
    resolution |-> FormatResolution(m) ]

\* yt-dlp has printed a document.
InitFormat ==
  /\ ServerIdle
  /\ cookiesFile = FALSE
  /\ input \in Metadatas
  /\ output = [duration |-> Undefined, filesize |-> Undefined, resolution |-> <<>>]
  /\ done = FALSE

BuildResponse ==
  /\ ~done
  /\ output' = ExtractResponse(input)
  /\ done' = TRUE
  /\ UNCHANGED <<now, serverVars, retryVars, input, configVars>>

FormatNext == BuildResponse

SpecFormat == InitFormat /\ [][FormatNext]_vars

\* ------------------------------------------- /extract: videoId and URLs

\* The values metadata.id and metadata.video_id take: undefined, null, or a
\* string, written as the sequence of its tokens (the empty string is <<>>).
NoText == [t |-> "undefined", s |-> <<>>]

NullText == [t |-> "null", s |-> <<>>]

Text(s) == [t |-> "string", s |-> s]

IdValues == {NoText, NullText, Text(<<>>), Text(<<"a">>), Text(<<"b">>)}

\* a || b for such values: a non-empty string is truthy.
OrText(a, b) == IF a.t = "string" /\ a.s # <<>> THEN a ELSE b

\* `vid_${Date.now()}` evaluated at time t.
GeneratedId(t) == Text(<<"vid_", ToString(t)>>)

\* The response of /extract with the id worked out anew, at a later
\* instant, for each URL that embeds it (mutant).
ResponseIdsRegenerated(m, t) ==
  LET videoId == OrText(OrText(m.id, m.video_id), GeneratedId(t))
      again == OrText(OrText(m.id, m.video_id), GeneratedId(t + 1)) IN
  [ videoId |-> videoId.s,
    downloadUrl |-> <<"/stream/">> \o again.s,
    streamUrl |-> <<"/stream/">> \o again.s,
    statusUrl |-> <<"/status/">> \o again.s ]

\* The videoId of the response and the three URLs built from it: `videoId`
\* is one constant, computed once.
ResponseIds(m, t) ==
  LET videoId == OrText(OrText(m.id, m.video_id), GeneratedId(t)) IN
  [ videoId |-> videoId.s,
    downloadUrl |-> <<"/stream/">> \o videoId.s,
    streamUrl |-> <<"/stream/">> \o videoId.s,
    statusUrl |-> <<"/status/">> \o videoId.s ]

\* yt-dlp has printed a document with or without an id.
InitIds ==
  /\ ServerIdle
  /\ cookiesFile = FALSE
  /\ input \in [id : IdValues, video_id : IdValues]
  /\ output = [videoId |-> <<>>, downloadUrl |-> <<>>, streamUrl |-> <<>>,
               statusUrl |-> <<>>]
  /\ done = FALSE

\* The handler builds the response at the present instant.
BuildIds ==
  /\ ~done
  /\ output' = ResponseIds(input, now)
  /\ done' = TRUE
  /\ UNCHANGED <<now, serverVars, retryVars, input, configVars>>

IdsNext == Tick \/ BuildIds

SpecIds == InitIds /\ [][IdsNext]_vars

\* ------------------------------------- /stream: the response's headers

\* The characters the class [a-z0-9] matches under the flag i.
Alnum ==
  { "a", "b", "c", "d", "e", "f", "g", "h", "i", "j", "k", "l", "m", "n", "o", "p", "q", "r", "s", "t", "u", "v", "w", "x", "y", "z",
    "A", "B", "C", "D", "E", "F", "G", "H", "I", "J", "K", "L", "M", "N", "O", "P", "Q", "R", "S", "T", "U", "V", "W", "X", "Y", "Z",
    "0", "1", "2", "3", "4", "5", "6", "7", "8", "9" }

\* Characters a title may hold besides letters and digits: a quote, the
\* path separators, a blank, a control character, a hyphen.
OtherChars == {"\"", "/", "\\", " ", "\n", "-"}

\* n times the letter x.
Pad(n) == [i \in 1..n |-> "x"]

\* Titles, as sequences of characters, of every length around the 50
\* characters kept: at most one character, a run of x, at most one
\* character.
Ends == {<<>>} \cup {<<c>> : c \in {"a", "Z", "7"} \cup OtherChars}

Titles == {p \o Pad(n) \o q : p \in Ends, q \in Ends, n \in {0, 48, 49, 50}}

UnknownTitle ==
  <<"U", "n", "k", "n", "o", "w", "n", " ", "T", "i", "t", "l", "e">>

\* title.replace(/[^a-z0-9]/gi, "_") replacing blanks only (mutant).
SanitizeBlanks(title) ==
  [i \in 1..Len(title) |-> IF title[i] = " " THEN "_" ELSE title[i]]

\* title.replace(/[^a-z0-9]/gi, "_").
Sanitize(title) ==
  [i \in 1..Len(title) |-> IF title[i] \in Alnum THEN title[i] ELSE "_"]

\* s.substring(0, 50).
Substring50(s) == SubSeq(s, 1, IF Len(s) < 50 THEN Len(s) ELSE 50)

\* The filename of /stream for the cached record of videoId: from the title
\* if it is a non-empty string, `video_<videoId>.mp4` otherwise.
Filename(title, videoId) ==
  IF title.t = "string" /\ title.s # <<>>
  THEN Substring50(Sanitize(title.s)) \o <<".", "m", "p", "4">>
  ELSE <<"v", "i", "d", "e", "o", "_">> \o videoId \o <<".", "m", "p", "4">>

\* The headers /stream sets, on the cached file and on the live stream
\* alike, for a video whose document had the given title: /extract cached
\* `title || "Unknown Title"` and /stream derives the filename from it.
StreamHeaders(title, videoId) ==
  [ contentType |-> "video/mp4",
    filename |-> Filename(OrText(title, Text(UnknownTitle)), videoId) ]

\* yt-dlp reported a title, or none.
InitHeaders ==
  /\ ServerIdle
  /\ cookiesFile = FALSE
  /\ input \in [title : {NoText, NullText} \cup {Text(t) : t \in Titles},
                videoId : {<<"a">>}]
  /\ output = [contentType |-> "", filename |-> <<>>]
  /\ done = FALSE

\* /stream sets the headers of its response.
SetHeaders ==
  /\ ~done
  /\ output' = StreamHeaders(input.title, input.videoId)
  /\ done' = TRUE
  /\ UNCHANGED <<now, serverVars, retryVars, input, configVars>>

HeadersNext == SetHeaders

SpecHeaders == InitHeaders /\ [][HeadersNext]_vars

\* --------------------------------------- checkCookies and argument lists

Platforms == {"youtube", "instagram", "tiktok", "facebook"}

\* PLATFORM_CONFIG[platform].format.
PLATFORM_CONFIG_format ==
  [ youtube |-> "bestvideo[ext=mp4]+bestaudio[ext=m4a]/best[ext=mp4]/best",
    instagram |-> "best", tiktok |-> "best", facebook |-> "best" ]

cookiesPath == "youtube-cookies.txt"

\* The argument list /extract builds for a URL of the platform: the fixed
\* flags followed by a copy (spread) of the platform's extraArgs.
ExtractArgs(videoUrl, platform, extra) ==
  << videoUrl, "-f", PLATFORM_CONFIG_format[platform], "--dump-json",
     "--no-warnings" >> \o extra[platform]

\* initializeApp before checkCookies: the cookies file is there or not.
InitArgs ==
  /\ ServerIdle
  /\ cookiesFile \in BOOLEAN
  /\ input = <<>>
  /\ output = <<>>
  /\ done = FALSE

\* checkCookies, called once by initializeApp before app.listen: if the file
\* is there, the flag is pushed onto PLATFORM_CONFIG.youtube.extraArgs.
CheckCookies ==
  /\ ~done
  /\ done' = TRUE
  /\ extraArgs' = IF cookiesFile
                  THEN [extraArgs EXCEPT !.youtube = @ \o <<"--cookies", cookiesPath>>]
                  ELSE extraArgs
  /\ UNCHANGED <<now, serverVars, retryVars, input, output, cookiesFile>>

\* The operator of the server puts the cookies file in place or removes it.
CookiesFileChange ==
  /\ cookiesFile' = ~cookiesFile
  /\ UNCHANGED <<now, serverVars, retryVars, unitVars, extraArgs>>

\* The server is listening and /extract builds the arguments for a URL of
\* the platform; `output` lists the builds, each with the state of the
\* cookies file at the time.
BuildArgs(platform) ==
  /\ done
  /\ Len(output) < MaxBuilds
  /\ output' = Append(output,
       [ platform |-> platform, fileExists |-> cookiesFile,
         args |-> ExtractArgs("url", platform, extraArgs) ])
  /\ UNCHANGED <<now, serverVars, retryVars, input, done, configVars>>

ArgsNext ==
  \/ CheckCookies
  \/ CookiesFileChange
  \/ \E platform \in Platforms : BuildArgs(platform)

SpecArgs == InitArgs /\ [][ArgsNext]_vars

\* ------------------------------------------ serving a cached file on its own

\* Sizes, in bytes, of the cached file.
FileSizes == {500, 1000}

\* Range requests bytes=first-last that lie within the file.
RangeRequests ==
  { q \in [size : FileSizes, first : {100 * k : k \in 0..9},
                             last : {100 * k + 99 : k \in 0..9}] :
      q.first <= q.last /\ q.last < q.size }

\* What /download and /stream send for a cached file of the given size: the
\* size as Content-Length and the file piped from its first to its last
\* byte.  No status is set (it stays 200); req.headers is never read.
ServeCachedFile(q) ==
  [ status |-> 200, contentLength |-> q.size, contentRange |-> <<>>,
    body |-> <<0, q.size - 1>> ]

\* A request with a Range header for a file that is in the cache.
InitServe ==
  /\ ServerIdle
  /\ cookiesFile = FALSE
  /\ input \in RangeRequests
  /\ output = [status |-> 0, contentLength |-> 0, contentRange |-> <<>>, body |-> <<>>]
  /\ done = FALSE

ServeFile ==
  /\ ~done
  /\ output' = ServeCachedFile(input)
  /\ done' = TRUE
  /\ UNCHANGED <<now, serverVars, retryVars, input, configVars>>

ServeNext == ServeFile

SpecServe == InitServe /\ [][ServeNext]_vars

\* ------------------------------------------------ properties of cleanCache

\* The files a cleanCache pass removed.
Removed == DOMAIN input \ DOMAIN output

\* C21: when the directory exceeds MAX_CACHE_SIZE_MB, one cleanCache pass
\* leaves it at or below 80% of MAX_CACHE_SIZE_MB, whatever the files' ages.
C21_CleanReachesTarget ==
  (done /\ TotalSize(input) > MAX_CACHE_SIZE_MB)
    => TotalSize(output) * 10 <= MAX_CACHE_SIZE_MB * 8

\* C21 witness: a directory over the limit holding a file older than
\* CACHE_TTL and a file younger, cleaned with a file left.
C21_Witness ==
  /\ done
  /\ TotalSize(input) > MAX_CACHE_SIZE_MB
  /\ DOMAIN output # {}
  /\ \E f, g \in DOMAIN input : input[g].mtime - input[f].mtime >= CACHE_TTL

\* C22: cleanCache evicts oldest-first: the files left are the files found
\* less the removed ones, unchanged; no removed file is newer than a file
\* left; nothing is removed from a directory within the limit; and the last
\* file removed was needed: with it the directory was still above the target.
C22_OldestFirst ==
  done =>
    /\ DOMAIN output \subseteq DOMAIN input
    /\ \A f \in DOMAIN output : output[f] = input[f]
    /\ \A r \in Removed, k \in DOMAIN output : input[r].mtime <= input[k].mtime
    /\ TotalSize(input) <= MAX_CACHE_SIZE_MB => Removed = {}
    /\ Removed # {} =>
         \E r \in Removed :
           /\ \A q \in Removed : input[q].mtime <= input[r].mtime
           /\ (TotalSize(output) + input[r].size) * 10 > MAX_CACHE_SIZE_MB * 8

\* C22 witness: two files were removed and a strictly newer one was left.
C22_Witness ==
  /\ done
  /\ Cardinality(Removed) = 2
  /\ \E k \in DOMAIN output : \A r \in Removed : input[r].mtime < input[k].mtime

\* ------------------------------------------- properties of the live server

\* C23: a metadata entry older than CACHE_TTL is eventually removed from the
\* cache, whether or not its key is requested again.
C23_ExpiredEventuallyRemoved ==
  \A v \in VideoIds :
    (MapHas(metadataCache, v) /\ now - metadataCache[v].time >= CACHE_TTL)
      ~> ~MapHas(metadataCache, v)

\* -------------------------------------------- properties of classifying

\* The platforms in the order detectPlatform is to test them.
PlatformOrder == <<"youtube", "instagram", "tiktok", "facebook">>

\* The host names by which a platform is recognised.
PlatformHosts ==
  [ youtube |-> {"youtube.com", "youtu.be"}, instagram |-> {"instagram.com"},
    tiktok |-> {"tiktok.com"}, facebook |-> {"facebook.com", "fb.watch"} ]

HostMatches(i, u) == \E h \in PlatformHosts[PlatformOrder[i]] : Includes(u, h)

\* C25: detectPlatform returns the first platform, in the order youtube,
\* instagram, tiktok, facebook, whose detector matches the URL and null when
\* none matches; the answer depends on the URL alone, not on earlier calls.
C25_FirstMatchPure ==
  /\ \A k \in 1..Len(input) :
       input[k].type = "string" =>
         LET u == input[k].str
             hits == {i \in 1..Len(PlatformOrder) : HostMatches(i, u)} IN
         /\ ~output[k].threw
         /\ hits = {} => output[k].platform = "null"
         /\ hits # {} =>
              \E i \in hits : /\ \A j \in hits : i <= j
                              /\ output[k].platform = PlatformOrder[i]
  /\ \A k, l \in 1..Len(input) :
       input[k] = input[l] => output[k].platform = output[l].platform

\* C25 witness: a URL naming facebook and youtube was classified after and
\* before other URLs, youtube both times, and an unmatched URL as null.
C25_Witness ==
  /\ Len(input) = MaxClassify
  /\ \E k \in 1..Len(input) :
       /\ input[k].str = <<"facebook.com", "youtube.com">>
       /\ output[k].platform = "youtube"
  /\ \E k \in 1..Len(input) :
       /\ input[k].str = <<"example.com", "x">>
       /\ output[k].platform = "null"

\* C26: classifying never throws, whatever value `url` has, and the request
\* is answered: an input that matches no platform gets the unsupported
\* platform answer (400).
C26_ClassifyNeverThrows ==
  \A k \in 1..Len(input) :
    /\ ~output[k].threw
    /\ output[k].platform = "null" => (output[k].fate = "answered" /\ output[k].code = 400)

\* ------------------------------- properties of the /extract response

\* The size yt-dlp reports for a format, undefined if it reports none.
KnownSize(f) == Or(f.filesize, f.filesize_approx)

\* The document tells the size of what is to be downloaded: of the single
\* format, or of every requested format that has a track (and one has).
SizeKnown(m) ==
  IF m.requested_formats = <<>>
  THEN Truthy(Or(m.filesize, m.filesize_approx))
  ELSE /\ \E i \in DOMAIN m.requested_formats :
            HasVideo(m.requested_formats[i]) \/ HasAudio(m.requested_formats[i])
       /\ \A i \in DOMAIN m.requested_formats :
            (HasVideo(m.requested_formats[i]) \/ HasAudio(m.requested_formats[i]))
              => Truthy(KnownSize(m.requested_formats[i]))

\* C27: a duration, size or resolution the extraction result lacks is
\* reported by its default and by nothing else: duration 0, filesize null
\* (never the size of some of the components only), resolution "unknown".
C27_DefaultsOnly ==
  done =>
    /\ ~Truthy(input.duration) => output.duration = Num(0)
    /\ ~SizeKnown(input) => output.filesize = Null
    /\ ( /\ input.requested_formats = <<>>
         /\ ~Truthy(input.height) ) => output.resolution = <<"unknown">>
    /\ output.resolution # <<"unknown", "p">>
    /\ output.filesize # Num(0)

\* requested_formats lists a video-only and an audio-only component, each
\* with a size.
SeparateComponents(m) ==
  /\ Len(m.requested_formats) = 2
  /\ \E v, a \in 1..2 :
       /\ v # a
       /\ HasVideo(m.requested_formats[v]) /\ ~HasAudio(m.requested_formats[v])
       /\ HasAudio(m.requested_formats[a]) /\ ~HasVideo(m.requested_formats[a])
  /\ \A i \in 1..2 : Truthy(KnownSize(m.requested_formats[i]))

\* C28: when requested_formats has separate video and audio components, the
\* filesize reported is the size of the one plus the size of the other, and
\* the resolution reported is that of the video component.
C28_ComponentsSummed ==
  (done /\ SeparateComponents(input)) =>
    \E v, a \in 1..2 :
      /\ v # a
      /\ HasVideo(input.requested_formats[v])
      /\ output.filesize = Num(KnownSize(input.requested_formats[v]).n
                                 + KnownSize(input.requested_formats[a]).n)
      /\ output.resolution =
           IF Truthy(input.requested_formats[v].height)
           THEN <<ToString(input.requested_formats[v].height.n), "p">>
           ELSE <<"unknown">>

\* C28 witness: the audio component is listed first, its size is an
\* approximate one, and the response reports 100 + 30 and 720p.
C28_Witness ==
  /\ done
  /\ SeparateComponents(input)
  /\ HasAudio(input.requested_formats[1])
  /\ input.requested_formats[1].filesize = Undefined
  /\ input.requested_formats[2].filesize = Num(100)
  /\ output.filesize = Num(130)
  /\ output.resolution = <<"720", "p">>

\* ---------------------------------- properties of the background download

\* The background downloads of videoId v whose subprocess has not closed yet
\* or whose close handler has not finished.
Downloading(v) ==
  {r \in Reqs : req[r].vid = v /\ req[r].pc \in {"bg_running", "bg_rename"}}

\* C31: a queue entry is in status downloading only while a download
\* subprocess of its videoId is running or the close handler of one is at
\* work; once they have all finished the status is completed or failed,
\* also when the rename of the temp file failed.
C31_DownloadSettles ==
  \A v \in DOMAIN downloadQueue :
    downloadQueue[v].status = "downloading" => Downloading(v) # {}

\* C32: every queue entry is consistent: its status is downloading,
\* completed or failed; a completed entry has progress 100, a file path and
\* no error; a failed entry has progress 0, no file path and an error; a
\* downloading entry has neither file path nor error.
C32_EntryConsistent ==
  \A v \in DOMAIN downloadQueue :
    LET e == downloadQueue[v] IN
    /\ e.status \in {"downloading", "completed", "failed"}
    /\ e.status = "completed" => e.progress = 100 /\ e.filePath /\ e.error = "null"
    /\ e.status = "failed" => e.progress = 0 /\ ~e.filePath /\ e.error # "null"
    /\ e.status = "downloading" => ~e.filePath /\ e.error = "null"

\* C33: the file at the final path <videoId>.mp4 is a finished download:
\* no subprocess is writing to it.
C33_FinalFileComplete ==
  \A v \in VideoIds :
    MapHas(files, outputPath(v)) => ~\E p \in writers : req[p[1]].vid = v

\* C34: when the client of a live stream disconnects, the subprocess that
\* served it is terminated and no other subprocess is.
C34_DisconnectKillsOwn ==
  [][\A r \in Reqs :
       (req[r].pc = "streaming" /\ req'[r].pc = "aborted")
       => /\ proc'[<<r, "live">>] = "killed"
          /\ \A p \in ProcIds \ {<<r, "live">>} : proc'[p] = proc[p]]_vars

\* C35: the step that answers a /download/:videoId request spawns no
\* subprocess, and the answer follows from the queue entry of the videoId
\* alone: 404 exactly when there is none, 500 exactly when its status is
\* failed, 202 exactly when it is downloading, and the file (200) only when
\* it is completed with a file path.
C35_DownloadByEntryAlone ==
  [][\A r \in Reqs :
       ( /\ req[r].pc # "done"
         /\ req'[r].pc = "done"
         /\ req'[r].kind = "download" )
       => LET v == req'[r].vid
              code == req'[r].code
              has == MapHas(downloadQueue, v) IN
          /\ proc' = proc
          /\ code = 404 <=> ~has
          /\ code = 500 <=> (has /\ downloadQueue[v].status = "failed")
          /\ code = 202 <=> (has /\ downloadQueue[v].status = "downloading")
          /\ code = 200 => ( /\ has
                             /\ downloadQueue[v].status = "completed"
                             /\ downloadQueue[v].filePath )]_vars

\* --------------------------------------- properties of the metadata cache

\* A step in which an /extract stores its record (setCachedMetadata).
Stores(r) == req[r].pc = "extracting" /\ req'[r].pc = "bg_access"

\* C37: a read of a valid entry leaves the metadata cache as it is, its
\* timestamp included; a read of an expired or absent key removes that key
\* and nothing else; and no step but a store changes the timestamp of an
\* entry, so that an entry expires CACHE_TTL after it was stored however
\* often it was read.
C37_ReadDoesNotRefresh ==
  [][/\ \A r \in Reqs :
          ReadsCache(r) =>
            LET v == req'[r].vid IN
            IF CacheValid(metadataCache, v, now)
            THEN metadataCache' = metadataCache
            ELSE metadataCache' = MapDelete(metadataCache, v)
     /\ \A v \in DOMAIN metadataCache \cap DOMAIN metadataCache' :
          metadataCache'[v].time # metadataCache[v].time
            => \E r \in Reqs : Stores(r) /\ req'[r].vid = v]_vars

\* C37 witness: an entry was read while valid by one /stream and, read
\* again by a later /stream once CACHE_TTL had passed since it was stored,
\* was found expired and removed.
C37_Witness ==
  \E r, q \in Reqs :
    /\ r < q
    /\ req[r].kind = "stream" /\ req[q].kind = "stream"
    /\ req[r].vid = req[q].vid
    /\ req[r].metadata # NoData
    /\ req[q].metadata = NoData /\ req[q].code = 404
    /\ ExtractedBy(req[q].vid) # {}
    /\ ~MapHas(metadataCache, req[q].vid)
    /\ now = CACHE_TTL

\* ------------------------------- properties of the missing-parameter guard

\* C30: an /extract or /info request without its url parameter is answered
\* 400 in the step that receives it; that step starts no subprocess and
\* leaves the metadata cache, the download queue and the disk as they were.
C30_MissingParameterIs400 ==
  [][\A r \in Reqs :
       ( /\ req[r].pc = "idle"
         /\ req'[r].kind \in {"extract", "info"}
         /\ Missing(req'[r].url) )
       => /\ req'[r].pc = "done"
          /\ req'[r].code = 400
          /\ proc' = proc
          /\ metadataCache' = metadataCache
          /\ downloadQueue' = downloadQueue
          /\ files' = files]_vars

\* C30 witness: with a video in the cache and in the queue, an /extract and
\* an /info without url have both been answered 400, and no process exists
\* for either.
C30_Witness ==
  \E r, i \in Reqs :
    /\ req[r].kind = "extract" /\ req[i].kind = "info"
    /\ Missing(req[r].url) /\ Missing(req[i].url)
    /\ req[r].code = 400 /\ req[i].code = 400
    /\ \A p \in ProcIds : p[1] \in {r, i} => proc[p] = "none"
    /\ \E v \in VideoIds : MapHas(metadataCache, v) /\ MapHas(downloadQueue, v)

\* ------------------------------------- properties of the response's URLs

\* The videoId a client reads out of a URL of the response: what follows
\* the route prefix.
IdInUrl(url) == Tail(url)

Stem(filename) == SubSeq(filename, 1, Len(filename) - 4)

\* The title the filename is derived from.
TitleUsed == IF input.title.t = "string" /\ input.title.s # <<>>
             THEN input.title.s ELSE UnknownTitle

\* C38: the filename of a stream is the title with every character outside
\* [a-zA-Z0-9] replaced by "_", cut to at most 50 characters, followed by
\* .mp4; it holds no quote, path separator or control character; the
\* Content-Type is video/mp4.
C38_FilenameSanitized ==
  done =>
    LET stem == Stem(output.filename) IN
    /\ output.contentType = "video/mp4"
    /\ SubSeq(output.filename, Len(stem) + 1, Len(output.filename))
         = <<".", "m", "p", "4">>
    /\ Len(stem) <= 50
    /\ Len(stem) = (IF Len(TitleUsed) < 50 THEN Len(TitleUsed) ELSE 50)
    /\ \A i \in 1..Len(stem) :
         stem[i] = (IF TitleUsed[i] \in Alnum THEN TitleUsed[i] ELSE "_")
    /\ \A i \in 1..Len(output.filename) :
         output.filename[i] \notin {"\"", "/", "\\", "\n"}

\* C38 witness: a title of more than 50 characters that begins with a quote
\* and ends with a path separator has been turned into a filename of 50
\* characters and the extension.
C38_Witness ==
  /\ done
  /\ input.title.t = "string"
  /\ Len(input.title.s) > 50
  /\ input.title.s[1] = "\""
  /\ input.title.s[Len(input.title.s)] = "/"
  /\ Len(output.filename) = 54
  /\ output.filename[1] = "_"

\* -------------------------------------- properties of the argument lists

\* How many times the cookies flag occurs in an argument list.
CookiesFlags(args) == Cardinality({i \in DOMAIN args : args[i] = "--cookies"})

\* C29: building the arguments for a platform leaves the platform
\* configuration alone, and the list built holds the cookies flag at most
\* once and only if the cookies file exists; two builds for one platform
\* with the cookies file in the same state give the same list.
C29_ArgsWithoutSideEffect ==
  /\ \A k \in 1..Len(output) :
       /\ CookiesFlags(output[k].args) <= 1
       /\ CookiesFlags(output[k].args) = 1 => output[k].fileExists
  /\ \A k, l \in 1..Len(output) :
       ( /\ output[k].platform = output[l].platform
         /\ output[k].fileExists = output[l].fileExists )
       => output[k].args = output[l].args

\* ------------------------------------ properties of serving a cached file

\* C24: a request for bytes first-last of a cached file of size S is answered
\* 206 with Content-Range first-last/S, Content-Length last - first + 1 and
\* exactly those bytes.
C24_RangeHonoured ==
  done =>
    /\ output.status = 206
    /\ output.contentRange = <<input.first, input.last, input.size>>
    /\ output.contentLength = input.last - input.first + 1
    /\ output.body = <<input.first, input.last>>

====
